---- MODULE Spec2Model ----
(***************************************************************************)
(* Model of nessclient's Alarm (src/nessclient/alarm.py): the in-memory    *)
(* representation of the alarm panel, driven by handle_event.              *)
(*                                                                         *)
(* Python values are represented as follows.                               *)
(*   None                  the string "None"                               *)
(*   enum members          the string of their name                        *)
(*   Zone.triggered        "None", "True" or "False"                       *)
(*   update.status         a sequence (the code compares it to a list)     *)
(*   event.zone            a set holding at most one integer ({} is None)  *)
(*   a listener            the string naming the callable                  *)
(*   self.zones            a function on 1..NumZones; slot k is zones[k-1] *)
(***************************************************************************)
EXTENDS Integers, Sequences, FiniteSets

None == "None"

ArmingState ==
    {"UNKNOWN", "DISARMED", "ARMING", "EXIT_DELAY", "ARMED", "ARMED_MONITOR",
     "ENTRY_DELAY", "TRIGGERED"}

ArmingMode ==
    {"ARMED_AWAY", "ARMED_HOME", "ARMED_DAY", "ARMED_NIGHT", "ARMED_VACATION",
     "ARMED_HIGHEST"}

\* Faulty variant: the entry of ARMED_NIGHT repeats the value of ARMED_HOME.
ARM_EVENTS_MAP_repeated ==
    [t \in {"ARMED_AWAY", "ARMED_HOME", "ARMED_DAY", "ARMED_NIGHT",
            "ARMED_VACATION", "ARMED_HIGHEST"} |->
        CASE t = "ARMED_AWAY" -> "ARMED_AWAY"
          [] t = "ARMED_HOME" -> "ARMED_HOME"
          [] t = "ARMED_DAY" -> "ARMED_DAY"
          [] t = "ARMED_NIGHT" -> "ARMED_HOME"
          [] t = "ARMED_VACATION" -> "ARMED_VACATION"
          [] t = "ARMED_HIGHEST" -> "ARMED_HIGHEST"]

\* Alarm.ARM_EVENTS_MAP: the event types are named like the modes they map to.
ARM_EVENTS_MAP ==
    [t \in {"ARMED_AWAY", "ARMED_HOME", "ARMED_DAY", "ARMED_NIGHT",
            "ARMED_VACATION", "ARMED_HIGHEST"} |->
        CASE t = "ARMED_AWAY" -> "ARMED_AWAY"
          [] t = "ARMED_HOME" -> "ARMED_HOME"
          [] t = "ARMED_DAY" -> "ARMED_DAY"
          [] t = "ARMED_NIGHT" -> "ARMED_NIGHT"
          [] t = "ARMED_VACATION" -> "ARMED_VACATION"
          [] t = "ARMED_HIGHEST" -> "ARMED_HIGHEST"]

\* range(16) in __init__
NumZones == 16

\* "ZONE_{}".format(zone_id), looked up in ZoneUpdate.Zone
ZoneName ==
    <<"ZONE_1", "ZONE_2", "ZONE_3", "ZONE_4", "ZONE_5", "ZONE_6", "ZONE_7",
      "ZONE_8", "ZONE_9", "ZONE_10", "ZONE_11", "ZONE_12", "ZONE_13",
      "ZONE_14", "ZONE_15", "ZONE_16">>

VARIABLES
    infer_arming_state,  \* self._infer_arming_state
    arming_state,        \* self.arming_state
    arming_mode,         \* self._arming_mode
    zones,               \* self.zones[k-1].triggered, k in 1..NumZones
    on_state_change,     \* self._on_state_change
    on_zone_change,      \* self._on_zone_change
    registered,          \* the listeners registered so far
    last,                \* the last call made on the Alarm
    before,              \* arming_state and arming_mode when the last call
                         \* was made
    repeated,            \* whether the last call handled the same event as
                         \* the call before it
    notified,            \* the listener invocations made by the last call
    raised               \* whether the last call raised an exception

vars ==
    <<infer_arming_state, arming_state, arming_mode, zones, on_state_change,
      on_zone_change, registered, last, before, repeated, notified, raised>>

----------------------------------------------------------------------------
(* The Alarm object as a record, with the effects of the running call.     *)

Self ==
    [infer_arming_state |-> infer_arming_state,
     arming_state |-> arming_state,
     arming_mode |-> arming_mode,
     zones |-> zones,
     on_state_change |-> on_state_change,
     on_zone_change |-> on_zone_change,
     notified |-> <<>>,
     raised |-> FALSE]

\* list.__contains__
In(x, list) == \E i \in 1..Len(list) : list[i] = x

\* An exception propagating out of handle_event.
Raise(self) == [self EXCEPT !.raised = TRUE]

\* Python list indexing self.zones[i]: the slot (1-based) that index i
\* addresses, or 0 when the index is out of range (IndexError).
Slot(i) ==
    IF i >= 0 /\ i < NumZones THEN i + 1
    ELSE IF i < 0 /\ i >= -NumZones THEN i + NumZones + 1
    ELSE 0

\* Faulty variant: the comparison with the stored state is inverted.
_update_arming_state_if_equal(self, state) ==
    IF self.arming_state = state
    THEN LET s1 == [self EXCEPT !.arming_state = state]
         IN  IF self.on_state_change # None
             THEN [s1 EXCEPT !.notified =
                      Append(@, [f |-> self.on_state_change, kind |-> "state",
                                 state |-> state, mode |-> self.arming_mode])]
             ELSE s1
    ELSE self

\* Faulty variant: the comparison with the stored state is missing.
_update_arming_state_unconditional(self, state) ==
    LET s1 == [self EXCEPT !.arming_state = state]
    IN  IF self.on_state_change # None
        THEN [s1 EXCEPT !.notified =
                 Append(@, [f |-> self.on_state_change, kind |-> "state",
                            state |-> state, mode |-> self.arming_mode])]
        ELSE s1

_update_arming_state(self, state) ==
    IF self.arming_state # state
    THEN LET s1 == [self EXCEPT !.arming_state = state]
         IN  IF self.on_state_change # None
             THEN [s1 EXCEPT !.notified =
                      Append(@, [f |-> self.on_state_change, kind |-> "state",
                                 state |-> state, mode |-> self.arming_mode])]
             ELSE s1
    ELSE self

\* Faulty variant: a false value is stored as None (state or None).
_update_zone_falsy_as_none(self, zone_id, state) ==
    LET k == Slot(zone_id - 1)
    IN  IF k = 0 THEN Raise(self)
        ELSE IF self.zones[k] # state
        THEN LET s1 == [self EXCEPT
                           !.zones[k] = IF state = "False" THEN None ELSE state]
             IN  IF self.on_zone_change # None
                 THEN [s1 EXCEPT !.notified =
                          Append(@, [f |-> self.on_zone_change, kind |-> "zone",
                                     zone_id |-> zone_id, triggered |-> state])]
                 ELSE s1
        ELSE self

_update_zone(self, zone_id, state) ==
    LET k == Slot(zone_id - 1)
    IN  IF k = 0 THEN Raise(self)
        ELSE IF self.zones[k] # state
        THEN LET s1 == [self EXCEPT !.zones[k] = state]
             IN  IF self.on_zone_change # None
                 THEN [s1 EXCEPT !.notified =
                          Append(@, [f |-> self.on_zone_change, kind |-> "zone",
                                     zone_id |-> zone_id, triggered |-> state])]
                 ELSE s1
        ELSE self

\* Faulty variant: the mode is cleared when the state becomes DISARMED.
NoArmingFlagsClearingMode(self) ==
    IF self.infer_arming_state
    THEN IF self.arming_state = "UNKNOWN"
         THEN _update_arming_state(self, "DISARMED")
         ELSE self
    ELSE _update_arming_state([self EXCEPT !.arming_mode = None], "DISARMED")

\* Faulty variant: infer_arming_state is not consulted.
NoArmingFlagsAlwaysDisarmed(self) == _update_arming_state(self, "DISARMED")

\* Faulty variant: the comparison with UNKNOWN is inverted.
NoArmingFlagsUnlessUnknown(self) ==
    IF self.infer_arming_state
    THEN IF self.arming_state # "UNKNOWN"
         THEN _update_arming_state(self, "DISARMED")
         ELSE self
    ELSE _update_arming_state(self, "DISARMED")

\* The else branch of _handle_arming_update: no arming flags matched.
NoArmingFlags(self) ==
    IF self.infer_arming_state
    THEN IF self.arming_state = "UNKNOWN"
         THEN _update_arming_state(self, "DISARMED")
         ELSE self
    ELSE _update_arming_state(self, "DISARMED")

\* Faulty variant: the MONITOR_ARMED rule is tested last, after the TRIGGERED
\* and ARMED rules.
_handle_arming_update_armed_first(self, update) ==
    IF update.status = <<"AREA_1_ARMED">>
    THEN _update_arming_state(self, "EXIT_DELAY")
    ELSE IF self.arming_state = "TRIGGERED"
    THEN _update_arming_state(self, "TRIGGERED")
    ELSE IF In("AREA_1_ARMED", update.status)
            /\ In("AREA_1_FULLY_ARMED", update.status)
    THEN _update_arming_state(self, "ARMED")
    ELSE IF In("MONITOR_ARMED", update.status)
    THEN _update_arming_state(self, "ARMED_MONITOR")
    ELSE NoArmingFlags(self)

\* Faulty variant: the TRIGGERED rule is missing.
_handle_arming_update_without_triggered(self, update) ==
    IF update.status = <<"AREA_1_ARMED">>
    THEN _update_arming_state(self, "EXIT_DELAY")
    ELSE IF In("MONITOR_ARMED", update.status)
    THEN _update_arming_state(self, "ARMED_MONITOR")
    ELSE IF In("AREA_1_ARMED", update.status)
            /\ In("AREA_1_FULLY_ARMED", update.status)
    THEN _update_arming_state(self, "ARMED")
    ELSE NoArmingFlags(self)

_handle_arming_update(self, update) ==
    IF update.status = <<"AREA_1_ARMED">>
    THEN _update_arming_state(self, "EXIT_DELAY")
    ELSE IF In("MONITOR_ARMED", update.status)
    THEN _update_arming_state(self, "ARMED_MONITOR")
    ELSE IF self.arming_state = "TRIGGERED"
    THEN _update_arming_state(self, "TRIGGERED")
    ELSE IF In("AREA_1_ARMED", update.status)
            /\ In("AREA_1_FULLY_ARMED", update.status)
    THEN _update_arming_state(self, "ARMED")
    ELSE NoArmingFlags(self)

\* Faulty variant: the zones that are not included are left as they are.
RECURSIVE ZoneLoopIncludedOnly(_, _, _)
ZoneLoopIncludedOnly(self, update, i) ==
    IF i >= NumZones THEN self
    ELSE LET zone_id == i + 1
             name == ZoneName[zone_id]
         IN  IF name \in update.included_zones
             THEN ZoneLoopIncludedOnly(
                      _update_zone(self, zone_id, "True"), update, i + 1)
             ELSE ZoneLoopIncludedOnly(self, update, i + 1)

\* The body of the for loop of _handle_zone_input_update, from index i on.
RECURSIVE ZoneLoop(_, _, _)
ZoneLoop(self, update, i) ==
    IF i >= NumZones THEN self
    ELSE LET zone_id == i + 1
             name == ZoneName[zone_id]
         IN  IF name \in update.included_zones
             THEN ZoneLoop(_update_zone(self, zone_id, "True"), update, i + 1)
             ELSE ZoneLoop(_update_zone(self, zone_id, "False"), update, i + 1)

_handle_zone_input_update(self, update) == ZoneLoop(self, update, 0)

\* _update_zone(event.zone, state): event.zone = None makes zone_id - 1 a
\* TypeError.
UpdateEventZone(self, zone, state) ==
    IF zone = {} THEN Raise(self)
    ELSE _update_zone(self, CHOOSE z \in zone : TRUE, state)

\* The branches of _handle_system_status_event that test or set more than
\* the arming state.
\* Faulty variant: the state is restored from TRIGGERED only.
AlarmRestoreFromTriggered(self) ==
    IF self.arming_state = "TRIGGERED"
    THEN _update_arming_state(self, "ARMED")
    ELSE self

\* Faulty variant: the comparison with DISARMED is inverted.
AlarmRestoreInverted(self) ==
    IF self.arming_state = "DISARMED"
    THEN _update_arming_state(self, "ARMED")
    ELSE self

AlarmRestore(self) ==
    IF self.arming_state # "DISARMED"
    THEN _update_arming_state(self, "ARMED")
    ELSE self

ExitDelayEnd(self) ==
    IF self.arming_state = "EXIT_DELAY"
    THEN _update_arming_state(self, "ARMED")
    ELSE self

\* Faulty variant: the listener is notified although the state is ARMING
\* already.
ArmedAlwaysNotifying(self, type) ==
    _update_arming_state_unconditional(
        [self EXCEPT !.arming_mode = ARM_EVENTS_MAP[type]], "ARMING")

Armed(self, type) ==
    _update_arming_state(
        [self EXCEPT !.arming_mode = ARM_EVENTS_MAP[type]], "ARMING")

\* Faulty variant: the mode is cleared after the state is updated.
DisarmedClearingLate(self) ==
    [_update_arming_state(self, "DISARMED") EXCEPT !.arming_mode = None]

Disarmed(self) ==
    _update_arming_state([self EXCEPT !.arming_mode = None], "DISARMED")

_handle_system_status_event(self, event) ==
    IF event.type = "UNSEALED" THEN UpdateEventZone(self, event.zone, "True")
    ELSE IF event.type = "SEALED" THEN UpdateEventZone(self, event.zone, "False")
    ELSE IF event.type = "ALARM" THEN _update_arming_state(self, "TRIGGERED")
    ELSE IF event.type = "ALARM_RESTORE" THEN AlarmRestore(self)
    ELSE IF event.type = "ENTRY_DELAY_START"
    THEN _update_arming_state(self, "ENTRY_DELAY")
    ELSE IF event.type = "ENTRY_DELAY_END" THEN self
    ELSE IF event.type = "EXIT_DELAY_START"
    THEN _update_arming_state(self, "EXIT_DELAY")
    ELSE IF event.type = "EXIT_DELAY_END" THEN ExitDelayEnd(self)
    ELSE IF event.type \in DOMAIN ARM_EVENTS_MAP THEN Armed(self, event.type)
    ELSE IF event.type = "DISARMED" THEN Disarmed(self)
    ELSE IF event.type = "ARMING_DELAYED" THEN self
    ELSE self

\* Faulty variant: the request_id of a ZoneUpdate is not tested.
handle_event_any_zone_update(self, event) ==
    IF event.kind = "ArmingUpdate" THEN _handle_arming_update(self, event)
    ELSE IF event.kind = "ZoneUpdate"
    THEN _handle_zone_input_update(self, event)
    ELSE IF event.kind = "SystemStatusEvent"
    THEN _handle_system_status_event(self, event)
    ELSE self

handle_event(self, event) ==
    IF event.kind = "ArmingUpdate" THEN _handle_arming_update(self, event)
    ELSE IF event.kind = "ZoneUpdate"
            /\ event.request_id = "ZONE_INPUT_UNSEALED"
    THEN _handle_zone_input_update(self, event)
    ELSE IF event.kind = "SystemStatusEvent"
    THEN _handle_system_status_event(self, event)
    ELSE self

----------------------------------------------------------------------------
(* The events and listeners the model feeds to the Alarm.                  *)

StatusLists ==
    {<<>>, <<"AREA_1_ARMED">>, <<"AREA_1_FULLY_ARMED">>,
     <<"AREA_1_ARMED", "AREA_1_FULLY_ARMED">>, <<"MONITOR_ARMED">>,
     <<"AREA_1_ARMED", "MONITOR_ARMED">>,
     <<"AREA_1_ARMED", "AREA_1_FULLY_ARMED", "MONITOR_ARMED">>,
     <<"AREA_1_ARMED", "AREA_2_ARMED">>}

ArmingUpdates == {[kind |-> "ArmingUpdate", status |-> s] : s \in StatusLists}

ZoneInputUpdate(included) ==
    [kind |-> "ZoneUpdate", request_id |-> "ZONE_INPUT_UNSEALED",
     included_zones |-> included]

OtherZoneUpdates ==
    {[kind |-> "ZoneUpdate", request_id |-> "ZONE_RADIO_UNSEALED",
      included_zones |-> {"ZONE_3"}]}

SystemStatusEvent(type, zone) ==
    [kind |-> "SystemStatusEvent", type |-> type, zone |-> zone]

\* The event types that carry a zone; event.zone is absent, or an integer
\* inside or outside 1..NumZones.
ZoneEvents(zoneSet) ==
    {SystemStatusEvent(t, z) : t \in {"UNSEALED", "SEALED"}, z \in zoneSet}

\* The event types that carry no zone; OUTPUT_ON is one the handler does not
\* list.
StateEventTypes ==
    {"ALARM", "ALARM_RESTORE", "ENTRY_DELAY_START", "ENTRY_DELAY_END",
     "EXIT_DELAY_START", "EXIT_DELAY_END", "DISARMED", "ARMING_DELAYED",
     "OUTPUT_ON"}

StateEvents(armTypes) ==
    {SystemStatusEvent(t, {}) : t \in StateEventTypes \cup armTypes}

OtherEvents == {[kind |-> "StatusUpdate"]}

\* Every kind of event, with two of the six arming modes and zone 3.
Events ==
    ArmingUpdates \cup StateEvents({"ARMED_AWAY", "ARMED_HOME"})
        \cup {ZoneInputUpdate(z) : z \in {{}, {"ZONE_3", "ZONE_7"}}}
        \cup OtherZoneUpdates \cup ZoneEvents({{}, {3}, {NumZones + 1}})
        \cup OtherEvents

\* The events that bear on the arming state, with all six arming modes.
ArmingEvents == ArmingUpdates \cup StateEvents(DOMAIN ARM_EVENTS_MAP)

\* The events that bear on the zones.
ZoningEvents ==
    {ZoneInputUpdate(z) :
        z \in {{}, {"ZONE_3", "ZONE_7"}, {"ZONE_7"}, {"ZONE_1", "ZONE_16"}}}
        \cup OtherZoneUpdates
        \cup ZoneEvents({{}, {0}, {1}, {3}, {NumZones + 1}, {-NumZones}})

StateListeners == {"f1"}
ZoneListeners == {"g1"}

\* Two listeners of each kind, and a few events that change the arming state
\* or the zones.
ListenerEvents ==
    {SystemStatusEvent(t, {}) : t \in {"ALARM", "DISARMED", "ARMED_AWAY"}}
        \cup {ZoneInputUpdate(z) : z \in {{}, {"ZONE_3", "ZONE_7"}}}
        \cup ZoneEvents({{3}})

----------------------------------------------------------------------------
(* The calls.                                                              *)

\* Faulty variant: the panel is taken to be disarmed at construction.
InitDisarmed ==
    /\ infer_arming_state \in BOOLEAN
    /\ arming_state = "DISARMED"
    /\ zones = [k \in 1..NumZones |-> None]
    /\ arming_mode = None
    /\ on_state_change = None
    /\ on_zone_change = None
    /\ registered = {}
    /\ last = [op |-> "__init__"]
    /\ before = [arming_state |-> "DISARMED", arming_mode |-> None]
    /\ repeated = FALSE
    /\ notified = <<>>
    /\ raised = FALSE

\* Alarm(infer_arming_state)
Init ==
    /\ infer_arming_state \in BOOLEAN
    /\ arming_state = "UNKNOWN"
    /\ zones = [k \in 1..NumZones |-> None]
    /\ arming_mode = None
    /\ on_state_change = None
    /\ on_zone_change = None
    /\ registered = {}
    /\ last = [op |-> "__init__"]
    /\ before = [arming_state |-> "UNKNOWN", arming_mode |-> None]
    /\ repeated = FALSE
    /\ notified = <<>>
    /\ raised = FALSE

HandleEvent(event) ==
    \E r \in {handle_event(Self, event)} :
        /\ arming_state' = r.arming_state
        /\ arming_mode' = r.arming_mode
        /\ zones' = r.zones
        /\ notified' = r.notified
        /\ raised' = r.raised
        /\ last' = [op |-> "handle_event", event |-> event]
        /\ before' = [arming_state |-> arming_state, arming_mode |-> arming_mode]
        /\ repeated' = (last = [op |-> "handle_event", event |-> event])
        /\ UNCHANGED <<infer_arming_state, on_state_change, on_zone_change,
                       registered>>

OnStateChange(f) ==
    /\ on_state_change' = f
    /\ registered' = registered \cup {f}
    /\ last' = [op |-> "on_state_change", f |-> f]
    /\ before' = [arming_state |-> arming_state, arming_mode |-> arming_mode]
    /\ repeated' = FALSE
    /\ notified' = <<>>
    /\ raised' = FALSE
    /\ UNCHANGED <<infer_arming_state, arming_state, arming_mode, zones,
                   on_zone_change>>

\* Faulty variant: the listener is stored in the slot of the state listener.
OnZoneChangeInStateSlot(f) ==
    /\ on_state_change' = f
    /\ registered' = registered \cup {f}
    /\ last' = [op |-> "on_zone_change", f |-> f]
    /\ before' = [arming_state |-> arming_state, arming_mode |-> arming_mode]
    /\ repeated' = FALSE
    /\ notified' = <<>>
    /\ raised' = FALSE
    /\ UNCHANGED <<infer_arming_state, arming_state, arming_mode, zones,
                   on_zone_change>>

OnZoneChange(f) ==
    /\ on_zone_change' = f
    /\ registered' = registered \cup {f}
    /\ last' = [op |-> "on_zone_change", f |-> f]
    /\ before' = [arming_state |-> arming_state, arming_mode |-> arming_mode]
    /\ repeated' = FALSE
    /\ notified' = <<>>
    /\ raised' = FALSE
    /\ UNCHANGED <<infer_arming_state, arming_state, arming_mode, zones,
                   on_state_change>>

Next ==
    \/ \E event \in Events : HandleEvent(event)
    \/ \E f \in StateListeners : OnStateChange(f)
    \/ \E f \in ZoneListeners : OnZoneChange(f)

Spec == Init /\ [][Next]_vars

\* The arming state machine alone, under every arming mode.
NextArming ==
    \/ \E event \in ArmingEvents : HandleEvent(event)
    \/ \E f \in StateListeners : OnStateChange(f)

SpecArming == Init /\ [][NextArming]_vars

\* The zones alone, under more zone numbers.
NextZones ==
    \/ \E event \in ZoningEvents : HandleEvent(event)
    \/ \E f \in ZoneListeners : OnZoneChange(f)

SpecZones == Init /\ [][NextZones]_vars

\* Listeners registered over one another.
NextListeners ==
    \/ \E event \in ListenerEvents : HandleEvent(event)
    \/ \E f \in {"f1", "f2"} : OnStateChange(f)
    \/ \E f \in {"g1", "g2"} : OnZoneChange(f)

SpecListeners == Init /\ [][NextListeners]_vars

----------------------------------------------------------------------------
(* What the last call was.                                                 *)

Handled == last.op = "handle_event"

HandledKind(kind) == Handled /\ last.event.kind = kind

HandledType(type) ==
    HandledKind("SystemStatusEvent") /\ last.event.type = type

\* The last call handled a zone-input-unsealed ZoneUpdate.
HandledZoneInput ==
    HandledKind("ZoneUpdate") /\ last.event.request_id = "ZONE_INPUT_UNSEALED"

\* The last call handled an ArmingUpdate that rules 1 and 2 do not match.
HandledPlainArmingUpdate ==
    /\ HandledKind("ArmingUpdate")
    /\ last.event.status # <<"AREA_1_ARMED">>
    /\ ~In("MONITOR_ARMED", last.event.status)

StateNotification(state, mode) ==
    [f |-> on_state_change, kind |-> "state", state |-> state, mode |-> mode]

----------------------------------------------------------------------------
(* C1..C10                                                                 *)

\* C1: whenever the arming state is UNKNOWN or DISARMED, the recorded
\* ArmingMode is absent.  The code breaks it: with infer_arming_state off,
\* an ArmingUpdate without arming flags moves to DISARMED and keeps the mode.
C1_ModeAbsentWhenDisarmed ==
    arming_state \in {"UNKNOWN", "DISARMED"} => arming_mode = None

\* C2 as stated: handling the same event twice in succession yields at most
\* one listener notification in total, and the second handling changes
\* neither arming state, arming mode nor zones.
C2_AtMostOneNotificationInTotal ==
    [][(last'.op = "handle_event" /\ last' = last)
          => /\ Len(notified) + Len(notified') <= 1
             /\ UNCHANGED <<arming_state, arming_mode, zones>>]_vars

\* C2 amended: the second of two successive handlings of the same event
\* invokes no listener and changes neither arming state, arming mode nor
\* zones; a single handling invokes at most one listener, except a
\* zone-input ZoneUpdate, which invokes the zone listener at most once per
\* zone (NumZones times at most).
C2_SecondHandlingIsSilent ==
    /\ [][(last'.op = "handle_event" /\ last' = last)
             => /\ notified' = <<>>
                /\ UNCHANGED <<arming_state, arming_mode, zones>>]_vars
    /\ [](Handled =>
            Len(notified) <= IF HandledZoneInput THEN NumZones ELSE 1)

C2_Witness ==
    /\ repeated
    /\ last.event = SystemStatusEvent("ARMED_HOME", {})
    /\ on_state_change # None
    /\ arming_state = "ARMING"
    /\ notified = <<>>

C4_AlarmThenRestore ==
    /\ (before.arming_state = "ARMED" /\ HandledType("ALARM"))
          => arming_state = "TRIGGERED"
    /\ (before.arming_state = "TRIGGERED" /\ HandledPlainArmingUpdate)
          => arming_state = "TRIGGERED" /\ notified = <<>>
    /\ (before.arming_state = "TRIGGERED" /\ HandledType("ALARM_RESTORE"))
          => arming_state = "ARMED"

C4_Witness ==
    /\ before.arming_state = "TRIGGERED"
    /\ HandledType("ALARM_RESTORE")
    /\ arming_state = "ARMED"
    /\ arming_mode = "ARMED_AWAY"
    /\ notified = <<StateNotification("ARMED", "ARMED_AWAY")>>

\* C5: after a zone-input-unsealed ZoneUpdate with included set S, zone i
\* is triggered if ZONE_i is in S and not triggered otherwise, for every i in
\* 1..16, whatever the zones held before; none is left unknown.
C5_ZoneInputSetsEveryZone ==
    HandledZoneInput =>
        \A i \in 1..16 :
            zones[i] = IF ZoneName[i] \in last.event.included_zones
                       THEN "True" ELSE "False"

\* Zone 3 was already triggered and the other zones were unknown: of the 16
\* zones, all but zone 3 changed.
C5_Witness ==
    /\ HandledZoneInput
    /\ last.event.included_zones = {"ZONE_3", "ZONE_7"}
    /\ on_zone_change # None
    /\ Len(notified) = NumZones - 1
    /\ \A n \in 1..Len(notified) : notified[n].zone_id # 3

HandledUnmatchedArmingUpdate ==
    /\ HandledPlainArmingUpdate
    /\ before.arming_state # "TRIGGERED"
    /\ ~(/\ In("AREA_1_ARMED", last.event.status)
         /\ In("AREA_1_FULLY_ARMED", last.event.status))

\* C7: an ArmingUpdate that matches none of rules 1 to 4 makes the state
\* DISARMED when infer_arming_state is off; when it is on, it makes an
\* UNKNOWN state DISARMED and leaves every other state as it is.
C7_NoArmingFlags ==
    HandledUnmatchedArmingUpdate =>
        arming_state =
            IF infer_arming_state /\ before.arming_state # "UNKNOWN"
            THEN before.arming_state
            ELSE "DISARMED"

C7_Witness ==
    /\ infer_arming_state
    /\ HandledUnmatchedArmingUpdate
    /\ last.event.status = <<>>
    /\ before.arming_state = "ARMED"
    /\ arming_state = "ARMED"

\* C8: with infer_arming_state on, the state moves to DISARMED from a state
\* other than UNKNOWN only while a SystemStatusEvent DISARMED is handled;
\* no ArmingUpdate does it.
C8_InferredDisarmOnlyByEvent ==
    (/\ infer_arming_state
     /\ arming_state = "DISARMED"
     /\ before.arming_state \notin {"UNKNOWN", "DISARMED"})
        => HandledType("DISARMED")

C8_Witness ==
    /\ infer_arming_state
    /\ before.arming_state = "ARMED_MONITOR"
    /\ arming_state = "DISARMED"
    /\ HandledType("DISARMED")

\* The state listener, if there is one, was invoked once, with these
\* arguments.
NotifiedState(state, mode) ==
    notified = IF on_state_change # None
               THEN <<StateNotification(state, mode)>>
               ELSE <<>>

\* C9: for each of the six ARMED_x event types, from DISARMED the event
\* ARMED_x leads to ARMING and records the mode named like it; from ARMING
\* the event EXIT_DELAY_START leads to EXIT_DELAY, and from EXIT_DELAY the
\* event EXIT_DELAY_END leads to ARMED, both keeping the recorded mode; each
\* of the three steps notifies the state listener of the new state with the
\* recorded mode.
C9_ArmingSequence ==
    /\ \A x \in {"ARMED_AWAY", "ARMED_HOME", "ARMED_DAY", "ARMED_NIGHT",
                 "ARMED_VACATION", "ARMED_HIGHEST"} :
          (before.arming_state = "DISARMED" /\ HandledType(x))
              => /\ arming_state = "ARMING"
                 /\ arming_mode = x
                 /\ NotifiedState("ARMING", x)
    /\ (before.arming_state = "ARMING" /\ HandledType("EXIT_DELAY_START"))
          => /\ arming_state = "EXIT_DELAY"
             /\ arming_mode = before.arming_mode
             /\ NotifiedState("EXIT_DELAY", before.arming_mode)
    /\ (before.arming_state = "EXIT_DELAY" /\ HandledType("EXIT_DELAY_END"))
          => /\ arming_state = "ARMED"
             /\ arming_mode = before.arming_mode
             /\ NotifiedState("ARMED", before.arming_mode)

C9_Witness ==
    /\ before = [arming_state |-> "EXIT_DELAY", arming_mode |-> "ARMED_NIGHT"]
    /\ HandledType("EXIT_DELAY_END")
    /\ arming_state = "ARMED"
    /\ arming_mode = "ARMED_NIGHT"
    /\ notified = <<StateNotification("ARMED", "ARMED_NIGHT")>>
    /\ on_state_change # None

\* C10: a SystemStatusEvent DISARMED makes the state DISARMED and the mode
\* absent from every state, and the state listener notified of the change
\* receives an absent mode; EXIT_DELAY_END changes the state, to ARMED, only
\* from EXIT_DELAY, and from any other state it changes nothing and notifies
\* nobody.
C10_DisarmThenExitDelayEnd ==
    /\ HandledType("DISARMED")
          => /\ arming_state = "DISARMED"
             /\ arming_mode = None
             /\ IF before.arming_state # "DISARMED"
                THEN NotifiedState("DISARMED", None)
                ELSE notified = <<>>
    /\ HandledType("EXIT_DELAY_END")
          => IF before.arming_state = "EXIT_DELAY"
             THEN arming_state = "ARMED"
             ELSE /\ arming_state = before.arming_state
                  /\ arming_mode = before.arming_mode
                  /\ notified = <<>>

C10_Witness ==
    /\ before = [arming_state |-> "EXIT_DELAY", arming_mode |-> "ARMED_HOME"]
    /\ HandledType("DISARMED")
    /\ arming_state = "DISARMED"
    /\ arming_mode = None
    /\ notified = <<StateNotification("DISARMED", None)>>
    /\ on_state_change # None

----------------------------------------------------------------------------
(* C11..C20                                                                *)

\* The invocations of the state listener that the change made by a step calls
\* for: one, with the new state and the mode recorded after the step, if the
\* arming state changed.
StateChangeNotifications ==
    IF arming_state' # arming_state /\ on_state_change # None
    THEN <<[f |-> on_state_change, kind |-> "state",
            state |-> arming_state', mode |-> arming_mode']>>
    ELSE <<>>

\* The invocations of the zone listener that the change made by a step calls
\* for: one for each zone from k on whose value changed, with the zone's id
\* and new value.
RECURSIVE ZoneChangeNotifications(_)
ZoneChangeNotifications(k) ==
    IF k > 16 \/ on_zone_change = None THEN <<>>
    ELSE IF zones'[k] # zones[k]
    THEN <<[f |-> on_zone_change, kind |-> "zone", zone_id |-> k,
            triggered |-> zones'[k]]>> \o ZoneChangeNotifications(k + 1)
    ELSE ZoneChangeNotifications(k + 1)

\* C11: a handle_event call invokes the state listener exactly once, with
\* the new state and the recorded mode, if it changed the arming state and
\* not at all otherwise, and invokes the zone listener exactly once, with
\* the zone's id and new value, for each zone whose stored value it changed
\* (unknown to known included) and for no other zone.  The code breaks it on
\* a SEALED or UNSEALED event with zone 0: zone 16 changes and the listener
\* is invoked with zone id 0.
C11_NotifiedExactlyTheChanges ==
    [][last'.op = "handle_event"
          => notified' = StateChangeNotifications \o ZoneChangeNotifications(1)]_vars

\* The last call handled a SEALED or UNSEALED event whose zone is absent or
\* outside 1..16.
HandledMalformedZoneEvent ==
    /\ HandledKind("SystemStatusEvent")
    /\ last.event.type \in {"SEALED", "UNSEALED"}
    /\ \A z \in last.event.zone : z \notin 1..16

\* C12: handle_event raises no error, whatever the event; a SEALED or
\* UNSEALED event whose zone is absent or outside 1..16 invokes no listener;
\* the zone listener is only invoked with a zone id in 1..16.  The code
\* breaks it: an absent zone is a TypeError, a zone beyond 16 an IndexError,
\* and zone 0 addresses the last zone.
C12_NoErrorOnMalformedEvent ==
    /\ ~raised
    /\ HandledMalformedZoneEvent => notified = <<>>
    /\ \A n \in 1..Len(notified) :
          notified[n].kind = "zone" => notified[n].zone_id \in 1..16

\* An event that no branch of handle_event and of
\* _handle_system_status_event acts on.
IgnoredEvent(event) ==
    \/ event.kind \notin {"ArmingUpdate", "ZoneUpdate", "SystemStatusEvent"}
    \/ event.kind = "ZoneUpdate" /\ event.request_id # "ZONE_INPUT_UNSEALED"
    \/ /\ event.kind = "SystemStatusEvent"
       /\ event.type \notin
             {"UNSEALED", "SEALED", "ALARM", "ALARM_RESTORE",
              "ENTRY_DELAY_START", "EXIT_DELAY_START", "EXIT_DELAY_END",
              "DISARMED", "ARMED_AWAY", "ARMED_HOME", "ARMED_DAY",
              "ARMED_NIGHT", "ARMED_VACATION", "ARMED_HIGHEST"}

\* C13: an event of another class, a ZoneUpdate whose request kind is not
\* zone-input-unsealed, and a SystemStatusEvent of type ENTRY_DELAY_END,
\* ARMING_DELAYED or of a type the handler does not list change neither the
\* arming state, the mode nor any zone, and invoke no listener.
C13_IgnoredEventsChangeNothing ==
    [][(last'.op = "handle_event" /\ IgnoredEvent(last'.event))
          => /\ UNCHANGED <<arming_state, arming_mode, zones>>
             /\ notified' = <<>>
             /\ ~raised']_vars

C13_Witness ==
    /\ Handled
    /\ IgnoredEvent(last.event)
    /\ last.event.kind = "ZoneUpdate"
    /\ "ZONE_3" \in last.event.included_zones
    /\ zones[3] = "False"
    /\ arming_state = "ARMED"
    /\ on_zone_change # None
    /\ on_state_change # None
    /\ notified = <<>>

\* C14: a freshly constructed Alarm, whatever infer_arming_state, has
\* arming state UNKNOWN, no arming mode, 16 zones that are all unknown and no
\* listener; after any calls there are still 16 zones and the arming state
\* is one of the eight values of ArmingState.
C14_FreshInstance ==
    /\ last.op = "__init__"
          => /\ arming_state = "UNKNOWN"
             /\ arming_mode = None
             /\ \A k \in 1..16 : zones[k] = None
             /\ on_state_change = None
             /\ on_zone_change = None
    /\ DOMAIN zones = 1..16
    /\ arming_state \in
          {"UNKNOWN", "DISARMED", "ARMING", "EXIT_DELAY", "ARMED",
           "ARMED_MONITOR", "ENTRY_DELAY", "TRIGGERED"}

C14_Witness ==
    /\ last.op = "__init__"
    /\ infer_arming_state
    /\ arming_state = "UNKNOWN"
    /\ Len(zones) = 16

\* C15: each kind of listener has one slot.  Every invocation made by a
\* call goes to the listener registered last for its kind, so a listener
\* that was replaced is not invoked again; registering a listener changes
\* neither the arming state, the mode nor any zone and invokes no listener,
\* and handling an event replaces no listener.
C15_SingleSlotListeners ==
    /\ [](\A n \in 1..Len(notified) :
             notified[n].f = IF notified[n].kind = "state"
                             THEN on_state_change ELSE on_zone_change)
    /\ [](last.op = "on_state_change"
             => on_state_change = last.f /\ notified = <<>>)
    /\ [](last.op = "on_zone_change"
             => on_zone_change = last.f /\ notified = <<>>)
    /\ [][last'.op = "on_state_change"
             => UNCHANGED <<arming_state, arming_mode, zones,
                            on_zone_change>>]_vars
    /\ [][last'.op = "on_zone_change"
             => UNCHANGED <<arming_state, arming_mode, zones,
                            on_state_change>>]_vars
    /\ [][last'.op = "handle_event"
             => UNCHANGED <<on_state_change, on_zone_change>>]_vars

C15_Witness ==
    /\ {"f1", "f2", "g1", "g2"} \subseteq registered
    /\ on_state_change = "f2"
    /\ on_zone_change = "g1"
    /\ HandledZoneInput
    /\ Len(notified) = 2
    /\ \A n \in 1..Len(notified) : notified[n].f = "g1"

\* C16: no arming state is terminal: in every reachable state, for either
\* value of infer_arming_state, handling some single event changes the
\* arming state; from TRIGGERED, ALARM_RESTORE leads to ARMED and a
\* SystemStatusEvent DISARMED leads to DISARMED.
C16_NoTerminalState ==
    /\ \E event \in ArmingEvents :
          handle_event(Self, event).arming_state # arming_state
    /\ arming_state = "TRIGGERED"
          => /\ handle_event(Self, SystemStatusEvent("ALARM_RESTORE", {}))
                   .arming_state = "ARMED"
             /\ handle_event(Self, SystemStatusEvent("DISARMED", {}))
                   .arming_state = "DISARMED"

C16_Witness ==
    /\ before.arming_state = "TRIGGERED"
    /\ HandledType("DISARMED")
    /\ arming_state = "DISARMED"
    /\ notified = <<StateNotification("DISARMED", None)>>

\* C17: ALARM_RESTORE makes the state ARMED from every state but DISARMED,
\* and leaves a DISARMED state as it is, invoking no listener.
C17_AlarmRestore ==
    HandledType("ALARM_RESTORE") =>
        IF before.arming_state # "DISARMED"
        THEN arming_state = "ARMED"
        ELSE arming_state = "DISARMED" /\ notified = <<>>

C17_Witness ==
    /\ before.arming_state = "ENTRY_DELAY"
    /\ HandledType("ALARM_RESTORE")
    /\ arming_state = "ARMED"
    /\ notified = <<StateNotification("ARMED", arming_mode)>>

\* The last call handled one of the six ARMED_x events.
HandledArmed ==
    /\ HandledKind("SystemStatusEvent")
    /\ last.event.type \in
          {"ARMED_AWAY", "ARMED_HOME", "ARMED_DAY", "ARMED_NIGHT",
           "ARMED_VACATION", "ARMED_HIGHEST"}

\* C18: the recorded mode is set by the six ARMED_x events, to the mode named
\* like the event, cleared by the SystemStatusEvent DISARMED, and left as it
\* was by every other call: every ArmingUpdate, every ZoneUpdate, every
\* other SystemStatusEvent and the registration of a listener.
C18_ModeFrame ==
    arming_mode =
        IF HandledArmed THEN last.event.type
        ELSE IF HandledType("DISARMED") THEN None
        ELSE before.arming_mode

\* An ArmingUpdate made the state DISARMED and the mode stayed.
C18_Witness ==
    /\ HandledKind("ArmingUpdate")
    /\ last.event.status = <<>>
    /\ before = [arming_state |-> "ARMED", arming_mode |-> "ARMED_HOME"]
    /\ arming_state = "DISARMED"
    /\ arming_mode = "ARMED_HOME"

\* C19: an ARMED_x event handled in state ARMING records the mode of ARMED_x
\* and invokes no listener; in general a call that leaves the arming state
\* as it was does not invoke the state listener, whatever it did to the
\* mode.
C19_ModeChangeNotNotified ==
    /\ (before.arming_state = "ARMING" /\ HandledArmed)
          => /\ arming_state = "ARMING"
             /\ arming_mode = last.event.type
             /\ notified = <<>>
    /\ arming_state = before.arming_state
          => \A n \in 1..Len(notified) : notified[n].kind # "state"

C19_Witness ==
    /\ before = [arming_state |-> "ARMING", arming_mode |-> "ARMED_AWAY"]
    /\ HandledType("ARMED_NIGHT")
    /\ arming_state = "ARMING"
    /\ arming_mode = "ARMED_NIGHT"
    /\ on_state_change # None
    /\ notified = <<>>

\* The event being handled by a step is a ZoneUpdate or a SEALED or UNSEALED
\* event.
HandlingZoneEvent ==
    /\ last'.op = "handle_event"
    /\ \/ last'.event.kind = "ZoneUpdate"
       \/ /\ last'.event.kind = "SystemStatusEvent"
          /\ last'.event.type \in {"SEALED", "UNSEALED"}

\* The event being handled by a step is an ArmingUpdate or a
\* SystemStatusEvent other than SEALED and UNSEALED.
HandlingStateEvent ==
    /\ last'.op = "handle_event"
    /\ \/ last'.event.kind = "ArmingUpdate"
       \/ /\ last'.event.kind = "SystemStatusEvent"
          /\ last'.event.type \notin {"SEALED", "UNSEALED"}

\* C20: an arming state other than UNKNOWN never becomes UNKNOWN again, and
\* a zone that is triggered or not triggered never becomes unknown again;
\* zone events change neither the arming state nor the mode, and
\* ArmingUpdates and the other SystemStatusEvents change no zone.
C20_KnowledgeIsKept ==
    [][/\ arming_state # "UNKNOWN" => arming_state' # "UNKNOWN"
       /\ \A k \in 1..16 : zones[k] # None => zones'[k] # None
       /\ HandlingZoneEvent => UNCHANGED <<arming_state, arming_mode>>
       /\ HandlingStateEvent => UNCHANGED zones]_vars

C20_Witness ==
    /\ HandledType("SEALED")
    /\ last.event.zone = {3}
    /\ zones[3] = "False"
    /\ zones[7] = "True"
    /\ before = [arming_state |-> "TRIGGERED", arming_mode |-> "ARMED_AWAY"]
    /\ arming_state = "TRIGGERED"
    /\ arming_mode = "ARMED_AWAY"
    /\ Len(notified) = 1

====
